---- MODULE Spec2Model ----
(***************************************************************************)
(* State-machine model of the SmolVLM browser front ends.                  *)
(*                                                                         *)
(* Part 1 models the multi-prompt video app (src/src/App.jsx): the React   *)
(* state, the refs, the video element, the camera streams handed out by    *)
(* getUserMedia and the inference worker reached by postMessage.           *)
(*                                                                         *)
(* React semantics used throughout: a handler runs to completion, the      *)
(* state updates it queued are committed in one render, and the effects    *)
(* whose dependencies changed run right after that render (cleanup first,  *)
(* then body).  One action of the model is one handler together with the   *)
(* render and the effects it causes.  A callback keeps the values of the   *)
(* render that created it: such captured values are passed explicitly as   *)
(* the record cap = [fr, run, prompts].                                    *)
(*                                                                         *)
(* Part 2 models the chat + live video app (the second component of        *)
(* src/smolvlm-webgpu/src/App.jsx).  Its state has the prefix cv where the *)
(* source name is already taken by part 1.                                 *)
(*                                                                         *)
(* Part 3 models the single-prompt video app (src/unnamed/part_001; the    *)
(* first component of src/smolvlm-webgpu/src/App.jsx has the same          *)
(* handlers).  Its state has the prefix sp where the name is taken.        *)
(***************************************************************************)
EXTENDS Integers, Sequences, FiniteSets, TLC

\* ------------------------------------------------------------------ bounds
MaxCalls == 3          \* getUserMedia calls made in one run
MaxBuf == 2            \* characters kept in one output buffer
MaxWorkerErrors == 1   \* `error` events fired by the Worker object
MaxFiles == 1          \* video files the user uploads
MaxMsgs == 3           \* chat messages in one conversation
MaxGen == 2            \* generations the chat + video worker holds at once

\* ------------------------------------------------------- program constants
Manual == 0            \* <option value={0}>Manual Trigger
Periodic == 1          \* <option value={1}>Every 1s
MaxSpeed == -1         \* <option value={-1}>Max Speed
Slow == 2              \* <option value={0.5}>Every 2s, written as its period: the code
                       \* tests the sign of a rate and sets the period 1000 / rate

Rates == {Manual, Periodic, MaxSpeed}
Devices == {"d1", "d2"}
NoImage == "none"      \* captureFrame() returned null
NoTimer == [fr |-> 0, run |-> FALSE, prompts |-> <<>>]  \* inferenceInterval.current = null
SpNoTimer == [fr |-> 0, prompt |-> <<>>]
SpInitPrompt == <<"d">>                  \* useState("Describe this image")
SpPrompts == {<<"d">>, <<"a">>}          \* texts the user may enter
Frame == "jpeg"        \* canvas.toDataURL('image/jpeg', 0.8)
LaterFrame == "jpeg+"  \* the same of a later frame of the playing video
Sep == <<"-">>         \* "\n\n---------------\n"
Tokens == {<<"x">>, <<"y">>}   \* texts carried by `update` events
Texts == {<<>>, <<" ">>, <<"a">>}   \* texts the user types into a prompt field

InitPrompts ==
  << [id |-> 0, text |-> <<"a">>, enabled |-> TRUE],
     [id |-> 1, text |-> <<>>, enabled |-> TRUE] >>
PromptIds == {0, 1}
\* every value of the prompts state with these ids
PromptSets ==
  {<<[id |-> 0, text |-> t0, enabled |-> e0], [id |-> 1, text |-> t1, enabled |-> e1]>> :
     t0 \in Texts, t1 \in Texts, e0 \in BOOLEAN, e1 \in BOOLEAN}

VARIABLES
  status,             \* useState(null): "null" | "loading" | "ready"
  error,              \* useState(null): "none" | "camera" | "worker"
  inputSource,        \* "camera" | "file"
  cameras,            \* set of enumerated video input devices
  selectedCamera,     \* "" or a device id
  videoFileUrl,       \* 0 (null) or the number of the object URL
  videoFramerate,     \* 0 manual, > 0 periodic, -1 continuous
  isAnalysisRunning,
  prompts,
  outputs,            \* prompt id -> accumulated text
  isWorkerBusy,       \* ref
  pendingRequests,    \* ref
  inferenceInterval,  \* ref: NoTimer, or the interval it designates (a cleared id is inert)
  timers,             \* the interval timers that are live, each the closure it calls
  streamRef,          \* ref: 0 (null) or a stream
  videoEl,            \* the <video> element: srcObject, src, readyState >= 2,
                      \* and the picture a drawImage of it gives now
  calls,              \* getUserMedia calls of setupCamera, in call order
  live,               \* streams whose tracks have not been stopped
  wkPhase,            \* worker: model loading protocol
  inflight,           \* worker: generations posted and not yet answered
  wkErrors,           \* number of Worker `error` events so far
  lastOp,             \* history: the handler that ran last, with the id and
                      \* the text of the worker event it handled
  captureIds,         \* history: ids of the requests built by the last accepted capture
  postedIds,          \* history: ids posted to the worker since that capture
  posted,             \* history: the requests posted since that capture
  drainClean,         \* history: no stop / error since that capture
  \* ---- chat + live video app
  cvStatus,           \* status: "null" | "loading" | "ready"
  cvError,            \* error: "none" | "worker"
  mode,               \* "chat" | "video"
  isRunning,
  messages,           \* sequence of [role, text]
  cvVideoFramerate,   \* videoFramerate
  isVideoRunning,
  videoOutput,
  cvIsWorkerBusy,     \* isWorkerBusy ref
  cvInferenceInterval,\* inferenceInterval ref: 0 or the rate of the live interval
  cvVideoReady,       \* the <video> of the video view is mounted with readyState 4
  cvPhase,            \* worker: check / load protocol
  cvInflight,         \* worker: generations posted and not yet answered
  cvLastOp,           \* history: the kind of handler that ran last and the
                      \* number of `generate` messages it posted
  cvSinceError,       \* history: a generation failed and the user has not
                      \* triggered anything since
  \* ---- part 3: the single-prompt video app
  spStatus,
  spVideoFramerate,
  videoPrompt,        \* the text entered in the prompt field
  spIsAnalysisRunning,
  spIsWorkerBusy,     \* ref
  spInferenceInterval,\* ref: SpNoTimer, or the interval it designates
  spTimers,           \* the interval timers that are live, each the closure it calls
  spListener,         \* the closure of the registered "message" listener
  spVideoReady,       \* the <video> has a frame (readyState >= 2)
  spInflight,         \* worker side: generations posted and not yet answered
  spLastOp            \* history: the handler that ran last

reactVars == <<status, error, inputSource, cameras, selectedCamera, videoFileUrl,
               videoFramerate, isAnalysisRunning, prompts, outputs>>
refVars == <<isWorkerBusy, pendingRequests, inferenceInterval, timers, streamRef>>
envVars == <<videoEl, calls, live, wkPhase, inflight, wkErrors>>
histVars == <<lastOp, captureIds, postedIds, posted, drainClean>>
mpVars == <<reactVars, refVars, envVars, histVars>>
cvVars == <<cvStatus, cvError, mode, isRunning, messages, cvVideoFramerate,
            isVideoRunning, videoOutput, cvIsWorkerBusy, cvInferenceInterval,
            cvVideoReady, cvPhase, cvInflight, cvLastOp, cvSinceError>>
spVars == <<spStatus, spVideoFramerate, videoPrompt, spIsAnalysisRunning,
           spIsWorkerBusy, spInferenceInterval, spTimers, spListener,
           spVideoReady, spInflight, spLastOp>>
vars == <<mpVars, cvVars, spVars>>

\* The record of a handler run: its name, the id and the text of the worker
\* event it handled, and the control message ("load", "interrupt") it posted.
Op(name) == [op |-> name, id |-> -1, out |-> <<>>, sent |-> "none"]

\* ------------------------------------------------------------ pure helpers
IsSpace(c) == c = " "

RECURSIVE TrimStart(_)
TrimStart(t) == IF t # <<>> /\ IsSpace(Head(t)) THEN TrimStart(Tail(t)) ELSE t

RECURSIVE TrimEnd(_)
TrimEnd(t) ==
  IF t # <<>> /\ IsSpace(t[Len(t)]) THEN TrimEnd(SubSeq(t, 1, Len(t) - 1)) ELSE t

\* String.prototype.trim
Trim(t) == TrimEnd(TrimStart(t))

\* mutant: no trim()
Eligible_noTrim(p) == p.enabled /\ Len(p.text) > 0

Eligible(p) == p.enabled /\ Len(Trim(p.text)) > 0

RECURSIVE BuildRequests(_, _)
\* prompts.filter(p => p.enabled && p.text.trim().length > 0).map(...)
BuildRequests(ps, image) ==
  IF ps = <<>> THEN <<>>
  ELSE LET p == Head(ps)
           rest == BuildRequests(Tail(ps), image)
       IN IF Eligible(p)
          THEN <<[id |-> p.id, text |-> p.text, image |-> image]>> \o rest
          ELSE rest

IdsOf(reqs) == [k \in 1..Len(reqs) |-> reqs[k].id]

\* captureFrame(): null without a mounted <video> or with readyState < 2
captureFrame ==
  IF status = "ready" /\ videoEl.ready THEN videoEl.frame ELSE NoImage

\* The refs a handler works on and the worker's inbox r.wk; r.posts are the
\* `generate` messages the handler posted and r.built the requests of the
\* capture it accepted (history).
Refs == [busy |-> isWorkerBusy, pending |-> pendingRequests, wk |-> inflight,
         posts |-> <<>>, accepted |-> FALSE, built |-> <<>>]

curCap == [fr |-> videoFramerate, run |-> isAnalysisRunning, prompts |-> prompts]
\* The message listener is installed by an effect with deps []: it keeps the
\* processRequestQueue of the first render.
firstCap == [fr |-> Manual, run |-> FALSE, prompts |-> InitPrompts]

RECURSIVE processRequestQueue(_, _, _)
RECURSIVE triggerInference(_, _, _)

\* mutant: takes the newest request instead of the oldest
processRequestQueue_popsLast(r, cap, img) ==
  IF r.pending = <<>>
  THEN LET r1 == [r EXCEPT !.busy = FALSE]
       IN IF cap.fr = MaxSpeed /\ cap.run THEN triggerInference(r1, cap, img) ELSE r1
  ELSE LET n == Len(r.pending)
       IN [r EXCEPT !.busy = TRUE,
                    !.pending = SubSeq(r.pending, 1, n - 1),
                    !.wk = Append(r.wk, [id |-> r.pending[n].id, phase |-> "posted"]),
                    !.posts = Append(r.posts, r.pending[n])]

\* mutant: the flag is not cleared on an empty queue
processRequestQueue_keepsBusy(r, cap, img) ==
  IF r.pending = <<>>
  THEN r
  ELSE [r EXCEPT !.busy = TRUE,
                 !.pending = Tail(r.pending),
                 !.wk = Append(r.wk, [id |-> Head(r.pending).id, phase |-> "posted"]),
                 !.posts = Append(r.posts, Head(r.pending))]

\* mutant: the frame is taken again when a queued request is posted
processRequestQueue_recaptures(r, cap, img) ==
  IF r.pending = <<>>
  THEN LET r1 == [r EXCEPT !.busy = FALSE]
       IN IF cap.fr = MaxSpeed /\ cap.run THEN triggerInference(r1, cap, img) ELSE r1
  ELSE LET next == IF img = NoImage THEN Head(r.pending)
                   ELSE [Head(r.pending) EXCEPT !.image = img]
       IN [r EXCEPT !.busy = TRUE,
                    !.pending = Tail(r.pending),
                    !.wk = Append(r.wk, [id |-> next.id, phase |-> "posted"]),
                    !.posts = Append(r.posts, next)]

processRequestQueue(r, cap, img) ==
  IF r.pending = <<>>
  THEN LET r1 == [r EXCEPT !.busy = FALSE]
       IN IF cap.fr = MaxSpeed /\ cap.run THEN triggerInference(r1, cap, img) ELSE r1
  ELSE [r EXCEPT !.busy = TRUE,
                 !.pending = Tail(r.pending),
                 !.wk = Append(r.wk, [id |-> Head(r.pending).id, phase |-> "posted"]),
                 !.posts = Append(r.posts, Head(r.pending))]

\* mutant: no `if (isWorkerBusy.current) return`
triggerInference_noBusyCheck(r, cap, img) ==
  IF img = NoImage THEN r
  ELSE LET requests == BuildRequests(cap.prompts, img)
       IN IF requests = <<>> THEN r
          ELSE processRequestQueue(
                 [r EXCEPT !.pending = requests, !.accepted = TRUE, !.built = requests],
                 cap, img)

\* mutant: no `if (!image) return`
triggerInference_noFrameCheck(r, cap, img) ==
  IF r.busy THEN r
  ELSE LET requests == BuildRequests(cap.prompts, img)
       IN IF requests = <<>> THEN r
          ELSE processRequestQueue(
                 [r EXCEPT !.pending = requests, !.accepted = TRUE, !.built = requests],
                 cap, img)

triggerInference(r, cap, img) ==
  IF r.busy THEN r
  ELSE IF img = NoImage THEN r
  ELSE LET requests == BuildRequests(cap.prompts, img)
       IN IF requests = <<>> THEN r
          ELSE processRequestQueue(
                 [r EXCEPT !.pending = requests, !.accepted = TRUE, !.built = requests],
                 cap, img)

\* The interval effect, run after a render that changed one of its deps
\* [isAnalysisRunning, videoFramerate, status, triggerInference].  The previous
\* run registered its cleanup only when it got past the early return, i.e. when
\* it ran with the loop on and status ready; cleanup and early return both
\* clear the interval the ref designates.  A timer is the closure
\* (triggerInference of the render that created it) it calls on each period.
IntervalResult(r, live0, created) ==
  [r |-> r,
   timers |-> live0 \cup created,
   timer |-> IF created # {} THEN CHOOSE t \in created : TRUE
             ELSE IF inferenceInterval \in live0 THEN inferenceInterval
             ELSE NoTimer]

intervalEffect_noCleanup(r, cap, st, img) ==
  IF ~cap.run \/ st # "ready"
  THEN IntervalResult(r, timers \ {inferenceInterval}, {})
  ELSE IF cap.fr > 0 THEN IntervalResult(r, timers, {cap})
  ELSE IF cap.fr = MaxSpeed
       THEN IntervalResult(triggerInference(r, cap, img), timers, {})
  ELSE IntervalResult(r, timers, {})

intervalEffect(r, cap, st, img) ==
  LET hadCleanup == isAnalysisRunning /\ status = "ready"
      cleaned == IF hadCleanup THEN timers \ {inferenceInterval} ELSE timers
  IN IF ~cap.run \/ st # "ready"
     THEN IntervalResult(r, cleaned \ {inferenceInterval}, {})
     ELSE IF cap.fr > 0 THEN IntervalResult(r, cleaned, {cap})
     ELSE IF cap.fr = MaxSpeed
          THEN IntervalResult(triggerInference(r, cap, img), cleaned, {})
     ELSE IntervalResult(r, cleaned, {})

\* The camera effect, run after a render that changed [status, inputSource,
\* selectedCamera].  The previous run registered a cleanup only when it got
\* past the early return, i.e. when it ran with status ready and source camera.
cameraEffect(st, src, cam) ==
  LET hadCleanup == status = "ready" /\ inputSource = "camera"
      early == st # "ready" \/ src # "camera"
      stops == hadCleanup \/ early
  IN [streamRef |-> IF stops THEN 0 ELSE streamRef,
      live |-> IF stops THEN live \ {streamRef} ELSE live,
      calls |-> IF early THEN calls
                ELSE Append(calls, [phase |-> "pending", cam |-> cam, dev |-> ""])]

\* The file effect, deps [inputSource, videoFileUrl]
fileEffect(el, st, src, url) ==
  IF src = "file" /\ url # 0 /\ st = "ready"
  THEN [srcObject |-> 0, src |-> url, ready |-> FALSE, frame |-> Frame]
  ELSE el

\* ------------------------------------------------------------------ commit
\* Writes back the refs a handler worked on and the messages it posted.
\* clean = FALSE marks a stop or an error during the drain.
Commit(r, clean) ==
  /\ isWorkerBusy' = r.busy
  /\ pendingRequests' = r.pending
  /\ inflight' = r.wk
  /\ captureIds' = IF r.accepted THEN IdsOf(r.built) ELSE captureIds
  /\ postedIds' = IF r.accepted THEN IdsOf(r.posts) ELSE postedIds \o IdsOf(r.posts)
  /\ posted' = IF r.accepted THEN r.posts ELSE posted \o r.posts
  /\ drainClean' = IF r.accepted THEN TRUE ELSE drainClean /\ clean

CommitInterval(e, clean) ==
  /\ Commit(e.r, clean)
  /\ inferenceInterval' = e.timer
  /\ timers' = e.timers

CommitCamera(c) ==
  /\ streamRef' = c.streamRef
  /\ live' = c.live
  /\ calls' = c.calls

\* ------------------------------------------------------------------- Init
InitWith(ps) ==
  /\ status = "null"
  /\ error = "none"
  /\ inputSource = "camera"
  /\ cameras = {}
  /\ selectedCamera = ""
  /\ videoFileUrl = 0
  /\ videoFramerate = Manual
  /\ isAnalysisRunning = FALSE
  /\ prompts = ps
  /\ outputs = [i \in PromptIds |-> <<>>]
  /\ isWorkerBusy = FALSE
  /\ pendingRequests = <<>>
  /\ inferenceInterval = NoTimer
  /\ timers = {}
  /\ streamRef = 0
  /\ videoEl = [srcObject |-> 0, src |-> 0, ready |-> FALSE, frame |-> Frame]
  /\ calls = <<>>
  /\ live = {}
  /\ wkPhase = "idle"
  /\ inflight = <<>>
  /\ wkErrors = 0
  /\ lastOp = Op("init")
  /\ captureIds = <<>>
  /\ postedIds = <<>>
  /\ posted = <<>>
  /\ drainClean = TRUE
  /\ cvStatus = "null"
  /\ cvError = "none"
  /\ mode = "chat"
  /\ isRunning = FALSE
  /\ messages = <<>>
  /\ cvVideoFramerate = Manual
  /\ isVideoRunning = FALSE
  /\ videoOutput = <<>>
  /\ cvIsWorkerBusy = FALSE
  /\ cvInferenceInterval = 0
  /\ cvVideoReady = FALSE
  /\ cvPhase = "idle"
  /\ cvInflight = <<>>
  /\ cvLastOp = [op |-> "init", posts |-> 0]
  /\ cvSinceError = FALSE
  /\ spStatus = "null"
  /\ spVideoFramerate = Manual
  /\ videoPrompt = SpInitPrompt
  /\ spIsAnalysisRunning = FALSE
  /\ spIsWorkerBusy = FALSE
  /\ spInferenceInterval = SpNoTimer
  /\ spTimers = {}
  /\ spListener = [fr |-> Manual, run |-> FALSE, prompt |-> SpInitPrompt]
  /\ spVideoReady = FALSE
  /\ spInflight = <<>>
  /\ spLastOp = "init"

Init == InitWith(InitPrompts)

\* ----------------------------------------------------------------- render
\* One render after a handler: commits the new React state and runs, in the
\* order of declaration, the effects whose dependencies changed.  r holds the
\* refs as the handler left them.
Render(st, src, cam, url, run, fr, ps, r, clean) ==
  LET camChanged == <<st, src, cam>> # <<status, inputSource, selectedCamera>>
      fileChanged == <<src, url>> # <<inputSource, videoFileUrl>>
      intChanged == <<run, fr, st, ps>> #
                      <<isAnalysisRunning, videoFramerate, status, prompts>>
      c == IF camChanged THEN cameraEffect(st, src, cam)
           ELSE [streamRef |-> streamRef, live |-> live, calls |-> calls]
      el == IF fileChanged THEN fileEffect(videoEl, st, src, url) ELSE videoEl
      img == IF st = "ready" /\ el.ready THEN el.frame ELSE NoImage
      e == IF intChanged
           THEN intervalEffect(r, [fr |-> fr, run |-> run, prompts |-> ps], st, img)
           ELSE [r |-> r, timer |-> inferenceInterval, timers |-> timers]
  IN /\ Len(c.calls) <= MaxCalls
     /\ status' = st
     /\ inputSource' = src
     /\ selectedCamera' = cam
     /\ videoFileUrl' = url
     /\ isAnalysisRunning' = run
     /\ videoFramerate' = fr
     /\ prompts' = ps
     /\ CommitCamera(c)
     /\ videoEl' = el
     /\ CommitInterval(e, clean)

\* the video plays: the picture of the <video> changes
VideoPlays ==
  /\ status = "ready"
  /\ videoEl.ready
  /\ videoEl' = [videoEl EXCEPT !.frame = IF @ = Frame THEN LaterFrame ELSE Frame]
  /\ lastOp' = Op("frame")
  /\ UNCHANGED <<reactVars, refVars, calls, live, wkPhase, inflight, wkErrors,
                 captureIds, postedIds, posted, drainClean>>
  /\ UNCHANGED <<cvVars, spVars>>

\* ------------------------------------------------- user actions (App.jsx)
\* "Load Model" button, shown while status === null
LoadModel ==
  /\ status = "null"
  /\ wkPhase \in {"idle", "idleFailed"}
  /\ wkPhase' = "load"
  /\ Render("loading", inputSource, selectedCamera, videoFileUrl,
            isAnalysisRunning, videoFramerate, prompts, Refs, TRUE)
  /\ lastOp' = [Op("load") EXCEPT !.sent = "load"]
  /\ UNCHANGED <<error, cameras, outputs, wkErrors>>
  /\ UNCHANGED <<cvVars, spVars>>

\* The action button is disabled while the source is a file not yet chosen.
ButtonEnabled ==
  /\ status = "ready"
  /\ ~(inputSource = "file" /\ videoFileUrl = 0)

\* onClick={videoFramerate === 0 ? triggerInference : toggleAnalysis}
ManualTrigger ==
  /\ ButtonEnabled
  /\ videoFramerate = Manual
  /\ Render(status, inputSource, selectedCamera, videoFileUrl, isAnalysisRunning,
            videoFramerate, prompts, triggerInference(Refs, curCap, captureFrame), TRUE)
  /\ lastOp' = Op("click")
  /\ UNCHANGED <<error, cameras, outputs, wkPhase, wkErrors>>
  /\ UNCHANGED <<cvVars, spVars>>

\* mutant: Stop does not empty the queue
toggleAnalysis_keepsPending ==
  /\ ButtonEnabled
  /\ videoFramerate # Manual
  /\ IF isAnalysisRunning
     THEN /\ Render(status, inputSource, selectedCamera, videoFileUrl, FALSE,
                    videoFramerate, prompts, Refs, FALSE)
          /\ lastOp' = [Op("stop") EXCEPT !.sent = "interrupt"]
     ELSE /\ Render(status, inputSource, selectedCamera, videoFileUrl, TRUE,
                    videoFramerate, prompts, Refs, TRUE)
          /\ lastOp' = Op("startLoop")
  /\ UNCHANGED <<error, cameras, outputs, wkPhase, wkErrors>>
  /\ UNCHANGED <<cvVars, spVars>>

\* mutant: Stop marks the worker busy until the interrupt is answered
toggleAnalysis_waitsForWorker ==
  /\ ButtonEnabled
  /\ videoFramerate # Manual
  /\ IF isAnalysisRunning
     THEN /\ Render(status, inputSource, selectedCamera, videoFileUrl, FALSE,
                    videoFramerate, prompts, [Refs EXCEPT !.pending = <<>>, !.busy = TRUE], FALSE)
          /\ lastOp' = [Op("stop") EXCEPT !.sent = "interrupt"]
     ELSE /\ Render(status, inputSource, selectedCamera, videoFileUrl, TRUE,
                    videoFramerate, prompts, Refs, TRUE)
          /\ lastOp' = Op("startLoop")
  /\ UNCHANGED <<error, cameras, outputs, wkPhase, wkErrors>>
  /\ UNCHANGED <<cvVars, spVars>>

toggleAnalysis ==
  /\ ButtonEnabled
  /\ videoFramerate # Manual
  /\ IF isAnalysisRunning
     THEN /\ Render(status, inputSource, selectedCamera, videoFileUrl, FALSE,
                    videoFramerate, prompts, [Refs EXCEPT !.pending = <<>>], FALSE)
          /\ lastOp' = [Op("stop") EXCEPT !.sent = "interrupt"]
     ELSE /\ Render(status, inputSource, selectedCamera, videoFileUrl, TRUE,
                    videoFramerate, prompts, Refs, TRUE)
          /\ lastOp' = Op("startLoop")
  /\ UNCHANGED <<error, cameras, outputs, wkPhase, wkErrors>>
  /\ UNCHANGED <<cvVars, spVars>>

\* the interval created by setInterval(triggerInference, intervalMs) fires
Tick ==
  /\ \E t \in timers :
       Render(status, inputSource, selectedCamera, videoFileUrl, isAnalysisRunning,
              videoFramerate, prompts, triggerInference(Refs, t, captureFrame), TRUE)
  /\ lastOp' = Op("tick")
  /\ UNCHANGED <<error, cameras, outputs, wkPhase, wkErrors>>
  /\ UNCHANGED <<cvVars, spVars>>

\* framerate select: onChange={(e) => setVideoFramerate(Number(e.target.value))}
SetFramerate(f) ==
  /\ status = "ready"
  /\ f # videoFramerate
  /\ Render(status, inputSource, selectedCamera, videoFileUrl, isAnalysisRunning,
            f, prompts, Refs, TRUE)
  /\ lastOp' = Op("rate")
  /\ UNCHANGED <<error, cameras, outputs, wkPhase, wkErrors>>
  /\ UNCHANGED <<cvVars, spVars>>

updatePrompt_allPrompts(id, newText) ==
  /\ status = "ready"
  /\ \E k \in 1..Len(prompts) : prompts[k].id = id /\ prompts[k].text # newText
  /\ Render(status, inputSource, selectedCamera, videoFileUrl, isAnalysisRunning,
            videoFramerate,
            [k \in 1..Len(prompts) |-> [prompts[k] EXCEPT !.text = newText]],
            Refs, TRUE)
  /\ lastOp' = Op("edit")
  /\ UNCHANGED <<error, cameras, outputs, wkPhase, wkErrors>>
  /\ UNCHANGED <<cvVars, spVars>>

\* onChange of the textarea of prompt id (its value differs from the text):
\* prev.map(p => p.id === id ? { ...p, text: newText } : p)
updatePrompt(id, newText) ==
  /\ status = "ready"
  /\ \E k \in 1..Len(prompts) : prompts[k].id = id /\ prompts[k].text # newText
  /\ Render(status, inputSource, selectedCamera, videoFileUrl, isAnalysisRunning,
            videoFramerate,
            [k \in 1..Len(prompts) |->
               IF prompts[k].id = id THEN [prompts[k] EXCEPT !.text = newText]
               ELSE prompts[k]],
            Refs, TRUE)
  /\ lastOp' = Op("edit")
  /\ UNCHANGED <<error, cameras, outputs, wkPhase, wkErrors>>
  /\ UNCHANGED <<cvVars, spVars>>

clearOutput(id) ==
  /\ status = "ready"
  /\ outputs' = [outputs EXCEPT ![id] = <<>>]
  /\ lastOp' = Op("clear")
  /\ UNCHANGED <<status, error, inputSource, cameras, selectedCamera, videoFileUrl,
                 videoFramerate, isAnalysisRunning, prompts, refVars, envVars,
                 captureIds, postedIds, posted,
                 drainClean>>
  /\ UNCHANGED <<cvVars, spVars>>

\* input source select: setInputSource(e.target.value); setIsAnalysisRunning(false)
SetInputSource(s) ==
  /\ status = "ready"
  /\ s # inputSource
  /\ Render(status, s, selectedCamera, videoFileUrl, FALSE,
            videoFramerate, prompts, Refs, ~isAnalysisRunning)
  /\ lastOp' = Op("source")
  /\ UNCHANGED <<error, cameras, outputs, wkPhase, wkErrors>>
  /\ UNCHANGED <<cvVars, spVars>>

\* the file input is rendered while the source is "file"
handleFileUpload ==
  /\ status = "ready"
  /\ inputSource = "file"
  /\ videoFileUrl < MaxFiles
  /\ Render(status, inputSource, selectedCamera, videoFileUrl + 1, FALSE,
            videoFramerate, prompts, Refs, ~isAnalysisRunning)
  /\ lastOp' = Op("upload")
  /\ UNCHANGED <<error, cameras, outputs, wkPhase, wkErrors>>
  /\ UNCHANGED <<cvVars, spVars>>

\* camera select: its options are the enumerated cameras
SelectCamera(d) ==
  /\ status = "ready"
  /\ inputSource = "camera"
  /\ d \in cameras
  /\ d # selectedCamera
  /\ Render(status, inputSource, d, videoFileUrl, isAnalysisRunning,
            videoFramerate, prompts, Refs, TRUE)
  /\ lastOp' = Op("selectCam")
  /\ UNCHANGED <<error, cameras, outputs, wkPhase, wkErrors>>
  /\ UNCHANGED <<cvVars, spVars>>

\* --------------------------------------- camera and video element (browser)
\* `await navigator.mediaDevices.getUserMedia(constraints)` resolves: the rest
\* of setupCamera up to the next await runs, whatever happened to the effect
\* that started it.
GumResolve(c, d) ==
  /\ c \in 1..Len(calls)
  /\ calls[c].phase = "pending"
  /\ d \in Devices
  /\ calls[c].cam \in {"", d}
  /\ calls' = [calls EXCEPT ![c].phase = "enumerating", ![c].dev = d]
  /\ streamRef' = c
  /\ live' = live \cup {c}
  /\ videoEl' = IF status = "ready"
                THEN [srcObject |-> c, src |-> 0, ready |-> FALSE, frame |-> Frame]
                ELSE videoEl
  /\ lastOp' = Op("gumResolve")
  /\ UNCHANGED <<reactVars, isWorkerBusy, pendingRequests, inferenceInterval, timers,
                 wkPhase, inflight, wkErrors, captureIds, postedIds, posted,
                 drainClean>>
  /\ UNCHANGED <<cvVars, spVars>>

\* getUserMedia rejects (permission denied, no device): the catch block
GumReject(c) ==
  /\ c \in 1..Len(calls)
  /\ calls[c].phase = "pending"
  /\ calls' = [calls EXCEPT ![c].phase = "failed"]
  /\ error' = "camera"
  /\ lastOp' = Op("gumReject")
  /\ UNCHANGED <<status, inputSource, cameras, selectedCamera, videoFileUrl,
                 videoFramerate, isAnalysisRunning, prompts, outputs, refVars,
                 videoEl, live, wkPhase, inflight, wkErrors,
                 captureIds, postedIds, posted,
                 drainClean>>
  /\ UNCHANGED <<cvVars, spVars>>

\* `await navigator.mediaDevices.enumerateDevices()` resolves: setCameras, and
\* with no camera selected when the call started, setSelectedCamera(activeDeviceId)
EnumResolve(c) ==
  /\ c \in 1..Len(calls)
  /\ calls[c].phase = "enumerating"
  /\ cameras' = Devices
  /\ LET cam == IF calls[c].cam = "" THEN calls[c].dev ELSE selectedCamera
         done == [calls EXCEPT ![c].phase = "done"]
         camChanged == cam # selectedCamera
         eff == cameraEffect(status, inputSource, cam)
     IN /\ selectedCamera' = cam
        /\ IF camChanged
           THEN /\ streamRef' = eff.streamRef
                /\ live' = eff.live
                /\ calls' = done \o SubSeq(eff.calls, Len(calls) + 1, Len(eff.calls))
           ELSE /\ calls' = done
                /\ UNCHANGED <<streamRef, live>>
        /\ Len(calls') <= MaxCalls
  /\ lastOp' = Op("enumResolve")
  /\ UNCHANGED <<status, error, inputSource, videoFileUrl, videoFramerate,
                 isAnalysisRunning, prompts, outputs, isWorkerBusy, pendingRequests,
                 inferenceInterval, timers, videoEl, wkPhase, inflight, wkErrors,
                 captureIds, postedIds, posted,
                 drainClean>>
  /\ UNCHANGED <<cvVars, spVars>>

\* the <video> element has decoded a frame of its media (readyState >= 2)
MediaReady ==
  /\ ~videoEl.ready
  /\ \/ videoEl.srcObject # 0 /\ videoEl.srcObject \in live
     \/ videoEl.srcObject = 0 /\ videoEl.src # 0
  /\ videoEl' = [videoEl EXCEPT !.ready = TRUE]
  /\ lastOp' = Op("mediaReady")
  /\ UNCHANGED <<reactVars, refVars, calls, live, wkPhase, inflight, wkErrors,
                 captureIds, postedIds, posted,
                 drainClean>>
  /\ UNCHANGED <<cvVars, spVars>>

\* --------------------------------------------------- worker events (App.jsx)
\* case "loading"
HandleLoading ==
  /\ wkPhase = "load"
  /\ wkPhase' = "loading"
  /\ Render("loading", inputSource, selectedCamera, videoFileUrl,
            isAnalysisRunning, videoFramerate, prompts, Refs, TRUE)
  /\ lastOp' = Op("loading")
  /\ UNCHANGED <<error, cameras, outputs, wkErrors>>
  /\ UNCHANGED <<cvVars, spVars>>

\* case "loading" once more: the worker sends a further `loading` (a second
\* progress text, or one sent after `ready`); the handler does not look at
\* the current status.
HandleLoadingAgain ==
  /\ wkPhase \in {"loading", "ready"}
  /\ wkPhase' = wkPhase
  /\ Render("loading", inputSource, selectedCamera, videoFileUrl,
            isAnalysisRunning, videoFramerate, prompts, Refs, TRUE)
  /\ lastOp' = Op("loading")
  /\ UNCHANGED <<error, cameras, outputs, wkErrors>>
  /\ UNCHANGED <<cvVars, spVars>>

\* case "ready"
HandleReady ==
  /\ wkPhase = "loading"
  /\ wkPhase' = "ready"
  /\ Render("ready", inputSource, selectedCamera, videoFileUrl,
            isAnalysisRunning, videoFramerate, prompts, Refs, TRUE)
  /\ lastOp' = Op("ready")
  /\ UNCHANGED <<error, cameras, outputs, wkErrors>>
  /\ UNCHANGED <<cvVars, spVars>>

Remove(q, k) == SubSeq(q, 1, k - 1) \o SubSeq(q, k + 1, Len(q))

\* mutant: `start` empties the buffer
HandleStart_resets(k) ==
  /\ k \in 1..Len(inflight)
  /\ inflight[k].phase = "posted"
  /\ LET id == inflight[k].id
     IN /\ Len(outputs[id]) < MaxBuf
        /\ outputs' = [outputs EXCEPT
                         ![id] = <<>>]
  /\ inflight' = [inflight EXCEPT ![k].phase = "started"]
  /\ lastOp' = [op |-> "start", id |-> inflight[k].id, out |-> <<>>, sent |-> "none"]
  /\ UNCHANGED <<status, error, inputSource, cameras, selectedCamera, videoFileUrl,
                 videoFramerate, isAnalysisRunning, prompts, refVars,
                 videoEl, calls, live, wkPhase, wkErrors,
                 captureIds, postedIds, posted,
                 drainClean>>
  /\ UNCHANGED <<cvVars, spVars>>

\* mutant: `start` leaves the buffer as it is
HandleStart_noSeparator(k) ==
  /\ k \in 1..Len(inflight)
  /\ inflight[k].phase = "posted"
  /\ LET id == inflight[k].id
     IN /\ Len(outputs[id]) < MaxBuf
        /\ outputs' = [outputs EXCEPT
                         ![id] = outputs[id]]
  /\ inflight' = [inflight EXCEPT ![k].phase = "started"]
  /\ lastOp' = [op |-> "start", id |-> inflight[k].id, out |-> <<>>, sent |-> "none"]
  /\ UNCHANGED <<status, error, inputSource, cameras, selectedCamera, videoFileUrl,
                 videoFramerate, isAnalysisRunning, prompts, refVars,
                 videoEl, calls, live, wkPhase, wkErrors,
                 captureIds, postedIds, posted,
                 drainClean>>
  /\ UNCHANGED <<cvVars, spVars>>

\* case "start", for the generation at position k of the worker
HandleStart(k) ==
  /\ k \in 1..Len(inflight)
  /\ inflight[k].phase = "posted"
  /\ LET id == inflight[k].id
     IN /\ Len(outputs[id]) < MaxBuf
        /\ outputs' = [outputs EXCEPT
                         ![id] = IF outputs[id] # <<>> THEN outputs[id] \o Sep ELSE <<>>]
  /\ inflight' = [inflight EXCEPT ![k].phase = "started"]
  /\ lastOp' = [op |-> "start", id |-> inflight[k].id, out |-> <<>>, sent |-> "none"]
  /\ UNCHANGED <<status, error, inputSource, cameras, selectedCamera, videoFileUrl,
                 videoFramerate, isAnalysisRunning, prompts, refVars,
                 videoEl, calls, live, wkPhase, wkErrors,
                 captureIds, postedIds, posted,
                 drainClean>>
  /\ UNCHANGED <<cvVars, spVars>>

\* mutant: [id]: output instead of [id]: prev[id] + output
HandleUpdate_overwrites(k, output) ==
  /\ k \in 1..Len(inflight)
  /\ inflight[k].phase = "started"
  /\ LET id == inflight[k].id
     IN /\ Len(outputs[id]) + Len(output) <= MaxBuf
        /\ outputs' = [outputs EXCEPT ![id] = output]
  /\ lastOp' = [op |-> "update", id |-> inflight[k].id, out |-> output, sent |-> "none"]
  /\ UNCHANGED <<status, error, inputSource, cameras, selectedCamera, videoFileUrl,
                 videoFramerate, isAnalysisRunning, prompts, refVars, envVars,
                 captureIds, postedIds, posted,
                 drainClean>>
  /\ UNCHANGED <<cvVars, spVars>>

\* case "update"
HandleUpdate(k, output) ==
  /\ k \in 1..Len(inflight)
  /\ inflight[k].phase = "started"
  /\ LET id == inflight[k].id
     IN /\ Len(outputs[id]) + Len(output) <= MaxBuf
        /\ outputs' = [outputs EXCEPT ![id] = outputs[id] \o output]
  /\ lastOp' = [op |-> "update", id |-> inflight[k].id, out |-> output, sent |-> "none"]
  /\ UNCHANGED <<status, error, inputSource, cameras, selectedCamera, videoFileUrl,
                 videoFramerate, isAnalysisRunning, prompts, refVars, envVars,
                 captureIds, postedIds, posted,
                 drainClean>>
  /\ UNCHANGED <<cvVars, spVars>>

\* case "complete": processRequestQueue() of the first render
HandleComplete(k) ==
  /\ k \in 1..Len(inflight)
  /\ inflight[k].phase = "started"
  /\ Render(status, inputSource, selectedCamera, videoFileUrl, isAnalysisRunning,
            videoFramerate, prompts,
            processRequestQueue([Refs EXCEPT !.wk = Remove(inflight, k)],
                                firstCap, captureFrame),
            TRUE)
  /\ lastOp' = [op |-> "complete", id |-> inflight[k].id, out |-> <<>>, sent |-> "none"]
  /\ UNCHANGED <<error, cameras, outputs, wkPhase, wkErrors>>
  /\ UNCHANGED <<cvVars, spVars>>

\* mutant: the queue is not emptied
onError_keepsPending(r) ==
  /\ error' = "worker"
  /\ Render(status, inputSource, selectedCamera, videoFileUrl, FALSE,
            videoFramerate, prompts, [r EXCEPT !.busy = FALSE], FALSE)
  /\ lastOp' = Op("error")
  /\ UNCHANGED <<cameras, outputs, wkErrors>>
  /\ UNCHANGED <<cvVars, spVars>>

\* case "error": setError(data); isWorkerBusy.current = false;
\* setIsAnalysisRunning(false); pendingRequests.current = []
onError(r) ==
  /\ error' = "worker"
  /\ Render(status, inputSource, selectedCamera, videoFileUrl, FALSE,
            videoFramerate, prompts, [r EXCEPT !.busy = FALSE, !.pending = <<>>], FALSE)
  /\ lastOp' = Op("error")
  /\ UNCHANGED <<cameras, outputs, wkErrors>>
  /\ UNCHANGED <<cvVars, spVars>>

\* the worker reports that the WebGPU check or the model load failed
HandleLoadError ==
  /\ wkPhase \in {"idle", "load", "loading"}
  /\ wkPhase' = IF wkPhase = "idle" THEN "idleFailed" ELSE "failed"
  /\ onError(Refs)

\* the worker answers the generation at position k with an error
HandleGenError(k) ==
  /\ k \in 1..Len(inflight)
  /\ wkPhase' = wkPhase
  /\ onError([Refs EXCEPT !.wk = Remove(inflight, k)])

\* onErrorReceived: the Worker object fires `error` (an uncaught exception in
\* the worker script).  Whether the generation in progress survives it is not
\* decided by the page: both outcomes are modelled.
onErrorReceived(dies) ==
  /\ wkPhase = "ready"
  /\ wkErrors < MaxWorkerErrors
  /\ wkErrors' = wkErrors + 1
  /\ isWorkerBusy' = FALSE
  /\ inflight' = IF dies /\ inflight # <<>> THEN Tail(inflight) ELSE inflight
  /\ drainClean' = FALSE
  /\ lastOp' = Op("workerError")
  /\ UNCHANGED <<reactVars, pendingRequests, inferenceInterval, timers, streamRef,
                 videoEl, calls, live, wkPhase, captureIds, postedIds, posted>>
  /\ UNCHANGED <<cvVars, spVars>>

\* ------------------------------------------------------------------- Next
LoadActions ==
  \/ LoadModel
  \/ HandleLoading
  \/ HandleReady
  \/ HandleLoadError

TriggerActions ==
  \/ ManualTrigger
  \/ toggleAnalysis
  \/ Tick
  \/ \E f \in Rates : SetFramerate(f)

SourceActions ==
  \/ \E s \in {"camera", "file"} : SetInputSource(s)
  \/ handleFileUpload

CameraActions(devices) ==
  \/ \E c \in 1..MaxCalls, d \in devices : GumResolve(c, d)
  \/ \E c \in 1..MaxCalls : EnumResolve(c)
  \/ MediaReady

WorkerActions ==
  \/ \E k \in 1..Len(inflight) : HandleStart(k)
  \/ \E k \in 1..Len(inflight) : HandleComplete(k)
  \/ \E k \in 1..Len(inflight) : HandleGenError(k)

OutputActions ==
  \/ \E k \in 1..Len(inflight), t \in Tokens : HandleUpdate(k, t)
  \/ \E id \in PromptIds : clearOutput(id)

CameraUserActions ==
  \/ \E d \in Devices : SelectCamera(d)
  \/ \E c \in 1..MaxCalls : GumReject(c)

\* The page with a camera that is granted and a worker that follows its
\* protocol: loading, triggers, the loop, prompt edits.
Next ==
  \/ LoadActions
  \/ TriggerActions
  \/ \E i \in 1..Len(prompts), t \in {<<>>, <<"a">>} : updatePrompt(prompts[i].id, t)
  \/ CameraActions({"d1"})
  \/ WorkerActions

Spec == Init /\ [][Next]_vars

\* The same page with a worker that answers: a message the worker owes
\* (`start`, then `complete` or `error`) is eventually delivered.
SpecDrain == Init /\ [][Next]_vars /\ WF_vars(WorkerActions)

\* The same page with a Worker object that may also fire `error`.
NextFault ==
  \/ Next
  \/ \E dies \in BOOLEAN : onErrorReceived(dies)

SpecFault == Init /\ [][NextFault]_vars

\* The streamed text: manual captures whose generations emit text, and Clear.
NextOutputs ==
  \/ LoadActions
  \/ ManualTrigger
  \/ \E t \in {<<>>, <<"a">>} : updatePrompt(1, t)
  \/ CameraActions({"d1"})
  \/ WorkerActions
  \/ OutputActions

SpecOutputs == Init /\ [][NextOutputs]_vars

\* The capture source: every camera and file event.
NextCamera ==
  \/ LoadActions
  \/ SourceActions
  \/ CameraActions(Devices)
  \/ CameraUserActions

SpecCamera == Init /\ [][NextCamera]_vars

\* The capture source with captures: source switches, uploads, a camera
\* that is granted or denied, manual captures and the worker's answers.
NextSource ==
  \/ LoadActions
  \/ SourceActions
  \/ CameraActions({"d1"})
  \/ \E c \in 1..MaxCalls : GumReject(c)
  \/ ManualTrigger
  \/ WorkerActions

SpecSource == Init /\ [][NextSource]_vars

\* The page with a worker that may send `loading` at any time after the
\* load began.
NextStatus ==
  \/ Next
  \/ HandleLoadingAgain

SpecStatus == Init /\ [][NextStatus]_vars

\* The loop's timer: every rate, a second periodic rate included, prompt
\* edits and a status that leaves "ready" while the loop runs.
NextTimer ==
  \/ LoadActions
  \/ HandleLoadingAgain
  \/ ManualTrigger
  \/ toggleAnalysis
  \/ Tick
  \/ \E f \in Rates \cup {Slow} : SetFramerate(f)
  \/ \E t \in {<<>>, <<"a">>} : updatePrompt(1, t)
  \/ CameraActions({"d1"})
  \/ WorkerActions

SpecTimer == Init /\ [][NextTimer]_vars

\* The loop and the capture source: starts and stops, rates, a second
\* prompt, source switches and uploads while the loop runs.
NextLoop ==
  \/ LoadActions
  \/ toggleAnalysis
  \/ SetFramerate(MaxSpeed)
  \/ updatePrompt(1, <<"a">>)
  \/ SourceActions
  \/ CameraActions({"d1"})
  \/ WorkerActions

SpecLoop == Init /\ [][NextLoop]_vars

\* The captures of a playing video: clicks and the loop, edits between two
\* non-blank texts, a picture that changes.
NextSnapshot ==
  \/ LoadActions
  \/ TriggerActions
  \/ \E i \in 1..Len(prompts), t \in {<<"a">>, <<"y">>} : updatePrompt(prompts[i].id, t)
  \/ CameraActions({"d1"})
  \/ VideoPlays
  \/ WorkerActions

SpecSnapshot == Init /\ [][NextSnapshot]_vars

\* The request builder: the page started with any prompt set, manual
\* captures and prompt edits.
InitRequests == \E ps \in PromptSets : InitWith(ps)

NextRequests ==
  \/ LoadActions
  \/ ManualTrigger
  \/ \E i \in 1..Len(prompts), t \in Texts : updatePrompt(prompts[i].id, t)
  \/ CameraActions({"d1"})
  \/ WorkerActions

SpecRequests == InitRequests /\ [][NextRequests]_vars

\* ============================== part 2: chat + live video app (second App)
UserMsg == [role |-> "user", text |-> <<"q">>]
AssistantMsg == [role |-> "assistant", text |-> <<>>]

\* The refs a handler works on, the worker's inbox r.wk and the number of
\* `generate` messages posted so far by the handler and its effects.
CvRefs == [busy |-> cvIsWorkerBusy, wk |-> cvInflight, posts |-> 0]

\* captureFrame(): null without a mounted <video> or with readyState !== 4
cvCaptureFrame == IF cvVideoReady THEN Frame ELSE NoImage

HasUser(msgs) == \E i \in 1..Len(msgs) : msgs[i].role = "user"

\* "Send messages to worker for Chat": the effect with deps
\* [messages, isRunning, mode]
chatSendEffect(r, md, run, msgs) ==
  IF md # "chat" THEN r
  ELSE IF ~HasUser(msgs) THEN r
  ELSE IF msgs[Len(msgs)].role = "assistant" THEN r
  ELSE [r EXCEPT !.busy = TRUE,
                 !.wk = Append(r.wk, [phase |-> "posted", src |-> "chat"]),
                 !.posts = r.posts + 1]

triggerVideoInference(r, img) ==
  IF r.busy THEN r
  ELSE IF img = NoImage THEN r
  ELSE [r EXCEPT !.busy = TRUE,
                 !.wk = Append(r.wk, [phase |-> "posted", src |-> "video"]),
                 !.posts = r.posts + 1]

\* "Handle Framerate Loop": the effect with deps [isVideoRunning,
\* videoFramerate, mode, triggerVideoInference]; the cleanup of the previous
\* run has cleared the interval.
cvIntervalEffect(r, md, vrun, fr, img) ==
  IF ~vrun \/ md # "video" THEN [r |-> r, timer |-> 0]
  ELSE IF fr > 0 THEN [r |-> r, timer |-> fr]
  ELSE IF fr = MaxSpeed THEN [r |-> triggerVideoInference(r, img), timer |-> 0]
  ELSE [r |-> r, timer |-> 0]

\* One render of the second App after a handler: commits the new state and
\* runs the effects whose dependencies changed, in the order of declaration.
\* name is the kind of handler ("trigger" for a user's triggering action,
\* "error" for case "error", "other"); newMsgs tells that setMessages
\* produced a new array.
CvRender(name, st, md, run, msgs, newMsgs, fr, vrun, r) ==
  LET chatChanged == newMsgs \/ run # isRunning \/ md # mode
      r1 == IF chatChanged THEN chatSendEffect(r, md, run, msgs) ELSE r
      \* the video view, and its <video>, exist while ready in video mode
      ready == IF st = "ready" /\ md = "video" /\ cvStatus = "ready" /\ mode = "video"
               THEN cvVideoReady ELSE FALSE
      img == IF ready THEN Frame ELSE NoImage
      intChanged == <<vrun, fr, md>> # <<isVideoRunning, cvVideoFramerate, mode>>
      e == IF intChanged THEN cvIntervalEffect(r1, md, vrun, fr, img)
           ELSE [r |-> r1, timer |-> cvInferenceInterval]
  IN /\ Len(e.r.wk) <= MaxGen
     /\ cvStatus' = st
     /\ mode' = md
     /\ isRunning' = run
     /\ messages' = msgs
     /\ cvVideoFramerate' = fr
     /\ isVideoRunning' = vrun
     /\ cvVideoReady' = ready
     /\ cvIsWorkerBusy' = e.r.busy
     /\ cvInflight' = e.r.wk
     /\ cvInferenceInterval' = e.timer
     /\ cvLastOp' = [op |-> name, posts |-> e.r.posts]

\* "Load Model" button, shown while status === null
CvLoadModel ==
  /\ cvStatus = "null"
  /\ cvPhase \in {"idle", "idleFailed"}
  /\ cvPhase' = "load"
  /\ CvRender("other", "loading", mode, isRunning, messages, FALSE,
              cvVideoFramerate, isVideoRunning, CvRefs)
  /\ UNCHANGED <<cvError, videoOutput, cvSinceError>>
  /\ UNCHANGED <<mpVars, spVars>>

\* case "loading"
CvHandleLoading ==
  /\ cvPhase = "load"
  /\ cvPhase' = "loading"
  /\ CvRender("other", "loading", mode, isRunning, messages, FALSE,
              cvVideoFramerate, isVideoRunning, CvRefs)
  /\ UNCHANGED <<cvError, videoOutput, cvSinceError>>
  /\ UNCHANGED <<mpVars, spVars>>

\* case "ready"
CvHandleReady ==
  /\ cvPhase = "loading"
  /\ cvPhase' = "ready"
  /\ CvRender("other", "ready", mode, isRunning, messages, FALSE,
              cvVideoFramerate, isVideoRunning, CvRefs)
  /\ UNCHANGED <<cvError, videoOutput, cvSinceError>>
  /\ UNCHANGED <<mpVars, spVars>>

\* Chat / Live Video buttons, shown while status === "ready"
SetMode(md) ==
  /\ cvStatus = "ready"
  /\ md # mode
  /\ CvRender("other", cvStatus, md, isRunning, messages, FALSE,
              cvVideoFramerate, isVideoRunning, CvRefs)
  /\ UNCHANGED <<cvError, videoOutput, cvPhase, cvSinceError>>
  /\ UNCHANGED <<mpVars, spVars>>

\* onEnter(input, images), reached from the send button and the Enter key
\* only with validInput && !isRunning
onEnter ==
  /\ cvStatus = "ready"
  /\ mode = "chat"
  /\ ~isRunning
  /\ Len(messages) < MaxMsgs
  /\ CvRender("trigger", cvStatus, mode, TRUE, Append(messages, UserMsg), TRUE,
              cvVideoFramerate, isVideoRunning, CvRefs)
  /\ cvSinceError' = FALSE
  /\ UNCHANGED <<cvError, videoOutput, cvPhase>>
  /\ UNCHANGED <<mpVars, spVars>>

\* "Analyze Now": onClick={videoFramerate === 0 ? triggerVideoInference : ...},
\* disabled={videoFramerate === 0 && isWorkerBusy.current}
CvManualTrigger ==
  /\ cvStatus = "ready"
  /\ mode = "video"
  /\ cvVideoFramerate = Manual
  /\ ~cvIsWorkerBusy
  /\ CvRender("trigger", cvStatus, mode, isRunning, messages, FALSE,
              cvVideoFramerate, isVideoRunning,
              triggerVideoInference(CvRefs, cvCaptureFrame))
  /\ cvSinceError' = FALSE
  /\ UNCHANGED <<cvError, videoOutput, cvPhase>>
  /\ UNCHANGED <<mpVars, spVars>>

\* "Start Loop" / "Stop Loop"; stop also posts `interrupt`
toggleVideoAnalysis ==
  /\ cvStatus = "ready"
  /\ mode = "video"
  /\ cvVideoFramerate # Manual
  /\ IF isVideoRunning
     THEN /\ CvRender("other", cvStatus, mode, isRunning, messages, FALSE,
                      cvVideoFramerate, FALSE, CvRefs)
          /\ UNCHANGED cvSinceError
     ELSE /\ CvRender("trigger", cvStatus, mode, isRunning, messages, FALSE,
                      cvVideoFramerate, TRUE, CvRefs)
          /\ cvSinceError' = FALSE
  /\ UNCHANGED <<cvError, videoOutput, cvPhase>>
  /\ UNCHANGED <<mpVars, spVars>>

\* the interval created by setInterval(triggerVideoInference, intervalMs) fires
CvTick ==
  /\ cvInferenceInterval # 0
  /\ CvRender("other", cvStatus, mode, isRunning, messages, FALSE,
              cvVideoFramerate, isVideoRunning,
              triggerVideoInference(CvRefs, cvCaptureFrame))
  /\ UNCHANGED <<cvError, videoOutput, cvPhase, cvSinceError>>
  /\ UNCHANGED <<mpVars, spVars>>

\* framerate select of the video view
CvSetFramerate(f) ==
  /\ cvStatus = "ready"
  /\ mode = "video"
  /\ f # cvVideoFramerate
  /\ CvRender("other", cvStatus, mode, isRunning, messages, FALSE,
              f, isVideoRunning, CvRefs)
  /\ UNCHANGED <<cvError, videoOutput, cvPhase, cvSinceError>>
  /\ UNCHANGED <<mpVars, spVars>>

\* the camera effect of the video view got its stream and the <video> has
\* buffered it (readyState 4)
CvMediaReady ==
  /\ cvStatus = "ready"
  /\ mode = "video"
  /\ ~cvVideoReady
  /\ cvVideoReady' = TRUE
  /\ cvLastOp' = [op |-> "other", posts |-> 0]
  /\ UNCHANGED <<cvStatus, cvError, mode, isRunning, messages, cvVideoFramerate,
                 isVideoRunning, videoOutput, cvIsWorkerBusy, cvInferenceInterval,
                 cvPhase, cvInflight, cvSinceError>>
  /\ UNCHANGED <<mpVars, spVars>>

\* case "start": a new empty assistant message in chat mode, else the video
\* output is cleared
CvHandleStart(k) ==
  /\ k \in 1..Len(cvInflight)
  /\ cvInflight[k].phase = "posted"
  /\ LET r == [CvRefs EXCEPT !.wk = [cvInflight EXCEPT ![k].phase = "started"]]
     IN IF mode = "chat"
        THEN /\ Len(messages) < MaxMsgs
             /\ CvRender("other", cvStatus, mode, isRunning,
                         Append(messages, AssistantMsg), TRUE,
                         cvVideoFramerate, isVideoRunning, r)
             /\ UNCHANGED videoOutput
        ELSE /\ CvRender("other", cvStatus, mode, isRunning, messages, FALSE,
                         cvVideoFramerate, isVideoRunning, r)
             /\ videoOutput' = <<>>
  /\ UNCHANGED <<cvError, cvPhase, cvSinceError>>
  /\ UNCHANGED <<mpVars, spVars>>

\* case "update": in chat mode setMessages returns a new array, whose last
\* message gets the text when it is an assistant message
CvHandleUpdate(k, output) ==
  /\ k \in 1..Len(cvInflight)
  /\ cvInflight[k].phase = "started"
  /\ IF mode = "chat"
     THEN LET n == Len(messages)
              toLast == n > 0 /\ messages[n].role = "assistant"
          IN /\ toLast => Len(messages[n].text) + Len(output) <= MaxBuf
             /\ CvRender("other", cvStatus, mode, isRunning,
                         IF toLast
                         THEN [messages EXCEPT ![n].text = messages[n].text \o output]
                         ELSE messages,
                         TRUE, cvVideoFramerate, isVideoRunning, CvRefs)
             /\ UNCHANGED videoOutput
     ELSE /\ Len(videoOutput) + Len(output) <= MaxBuf
          /\ CvRender("other", cvStatus, mode, isRunning, messages, FALSE,
                      cvVideoFramerate, isVideoRunning, CvRefs)
          /\ videoOutput' = videoOutput \o output
  /\ UNCHANGED <<cvError, cvPhase, cvSinceError>>
  /\ UNCHANGED <<mpVars, spVars>>

\* case "complete": the listener is re-installed whenever mode,
\* videoFramerate or isVideoRunning change, so it sees their current values
CvHandleComplete(k) ==
  /\ k \in 1..Len(cvInflight)
  /\ cvInflight[k].phase = "started"
  /\ LET r == [CvRefs EXCEPT !.busy = FALSE, !.wk = Remove(cvInflight, k)]
     IN IF mode = "chat"
        THEN CvRender("other", cvStatus, mode, FALSE, messages, FALSE,
                      cvVideoFramerate, isVideoRunning, r)
        ELSE CvRender("other", cvStatus, mode, isRunning, messages, FALSE,
                      cvVideoFramerate, isVideoRunning,
                      IF cvVideoFramerate = MaxSpeed /\ isVideoRunning
                      THEN triggerVideoInference(r, cvCaptureFrame) ELSE r)
  /\ UNCHANGED <<cvError, videoOutput, cvPhase, cvSinceError>>
  /\ UNCHANGED <<mpVars, spVars>>

\* case "error": setError(data); isWorkerBusy.current = false;
\* setIsRunning(false); setIsVideoRunning(false)
CvOnError(r) ==
  /\ cvError' = "worker"
  /\ CvRender("error", cvStatus, mode, FALSE, messages, FALSE,
              cvVideoFramerate, FALSE, [r EXCEPT !.busy = FALSE])
  /\ UNCHANGED videoOutput
  /\ UNCHANGED <<mpVars, spVars>>

\* the worker reports that the WebGPU check or the model load failed
CvHandleLoadError ==
  /\ cvPhase \in {"idle", "load", "loading"}
  /\ cvPhase' = IF cvPhase = "idle" THEN "idleFailed" ELSE "failed"
  /\ CvOnError(CvRefs)
  /\ UNCHANGED cvSinceError

\* the worker answers the generation at position k with an error
CvHandleGenError(k) ==
  /\ k \in 1..Len(cvInflight)
  /\ cvPhase' = cvPhase
  /\ CvOnError([CvRefs EXCEPT !.wk = Remove(cvInflight, k)])
  /\ cvSinceError' = TRUE

\* The chat + live video page with a worker that follows its protocol.
NextChat ==
  \/ CvLoadModel
  \/ CvHandleLoading
  \/ CvHandleReady
  \/ CvHandleLoadError
  \/ \E md \in {"chat", "video"} : SetMode(md)
  \/ onEnter
  \/ CvManualTrigger
  \/ toggleVideoAnalysis
  \/ CvTick
  \/ \E f \in Rates : CvSetFramerate(f)
  \/ CvMediaReady
  \/ \E k \in 1..Len(cvInflight) : CvHandleStart(k)
  \/ \E k \in 1..Len(cvInflight), t \in {<<"x">>} : CvHandleUpdate(k, t)
  \/ \E k \in 1..Len(cvInflight) : CvHandleComplete(k)
  \/ \E k \in 1..Len(cvInflight) : CvHandleGenError(k)

SpecChat == Init /\ [][NextChat]_vars

\* ===================== part 3: single-prompt video app (one prompt field)
\* The refs a handler works on and the worker's inbox r.wk.
SpRefs == [busy |-> spIsWorkerBusy, wk |-> spInflight]

\* captureFrame(): null without a <video> that has data
spCaptureFrame == IF spStatus = "ready" /\ spVideoReady THEN Frame ELSE NoImage

\* triggerInference of the render whose videoPrompt was text.  The posted
\* message carries text; entered is the text in the prompt field, rate the
\* frame rate and by the caller at the moment of the capture.
spTriggerInference(r, text, entered, rate, by, img) ==
  IF r.busy THEN r
  ELSE IF img = NoImage THEN r
  ELSE [r EXCEPT !.busy = TRUE,
                 !.wk = Append(r.wk, [phase |-> "posted", text |-> text,
                                      entered |-> entered, rate |-> rate,
                                      by |-> by])]

\* "Handle Loop Interval": the effect with deps [isAnalysisRunning,
\* videoFramerate, status, triggerInference]
SpIntervalResult(r, live0, created) ==
  [r |-> r,
   timers |-> live0 \cup created,
   timer |-> IF created # {} THEN CHOOSE t \in created : TRUE
             ELSE IF spInferenceInterval \in live0 THEN spInferenceInterval
             ELSE SpNoTimer]

spIntervalEffect(r, st, run, fr, pr, img) ==
  LET hadCleanup == spIsAnalysisRunning /\ spStatus = "ready"
      cleaned == IF hadCleanup THEN spTimers \ {spInferenceInterval} ELSE spTimers
  IN IF ~run \/ st # "ready"
     THEN SpIntervalResult(r, cleaned \ {spInferenceInterval}, {})
     ELSE IF fr > 0 THEN SpIntervalResult(r, cleaned, {[fr |-> fr, prompt |-> pr]})
     ELSE IF fr = MaxSpeed
          THEN SpIntervalResult(spTriggerInference(r, pr, pr, fr, "effect", img),
                                cleaned, {})
     ELSE SpIntervalResult(r, cleaned, {})

\* One render after a handler: commits the new state and runs the effects
\* whose dependencies changed.  The worker effect, deps [videoFramerate,
\* isAnalysisRunning], registers a listener that closes over the values and
\* the triggerInference of the render it ran in.
SpRender(name, st, fr, run, pr, r) ==
  LET lisChanged == <<fr, run>> # <<spVideoFramerate, spIsAnalysisRunning>>
      img == IF st = "ready" /\ spVideoReady THEN Frame ELSE NoImage
      intChanged == <<run, fr, st, pr>> #
                      <<spIsAnalysisRunning, spVideoFramerate, spStatus, videoPrompt>>
      e == IF intChanged THEN spIntervalEffect(r, st, run, fr, pr, img)
           ELSE [r |-> r, timer |-> spInferenceInterval, timers |-> spTimers]
  IN /\ spStatus' = st
     /\ spVideoFramerate' = fr
     /\ spIsAnalysisRunning' = run
     /\ videoPrompt' = pr
     /\ spListener' = IF lisChanged THEN [fr |-> fr, run |-> run, prompt |-> pr]
                      ELSE spListener
     /\ spIsWorkerBusy' = e.r.busy
     /\ spInflight' = e.r.wk
     /\ spInferenceInterval' = e.timer
     /\ spTimers' = e.timers
     /\ spLastOp' = name

\* "Load Model" button: postMessage({type: "load"}); setStatus("loading")
SpLoadModel ==
  /\ spStatus = "null"
  /\ SpRender("load", "loading", spVideoFramerate, spIsAnalysisRunning,
              videoPrompt, SpRefs)
  /\ UNCHANGED spVideoReady
  /\ UNCHANGED <<mpVars, cvVars>>

\* case "ready"
SpHandleReady ==
  /\ spStatus = "loading"
  /\ SpRender("ready", "ready", spVideoFramerate, spIsAnalysisRunning,
              videoPrompt, SpRefs)
  /\ UNCHANGED spVideoReady
  /\ UNCHANGED <<mpVars, cvVars>>

\* the camera stream or the file delivers its first frame
SpMediaReady ==
  /\ spStatus = "ready"
  /\ ~spVideoReady
  /\ spVideoReady' = TRUE
  /\ spLastOp' = "media"
  /\ UNCHANGED <<spStatus, spVideoFramerate, videoPrompt, spIsAnalysisRunning,
                 spIsWorkerBusy, spInferenceInterval, spTimers, spListener,
                 spInflight>>
  /\ UNCHANGED <<mpVars, cvVars>>

\* the action button while videoFramerate === 0: onClick = triggerInference,
\* disabled while the worker is busy
SpManualTrigger ==
  /\ spStatus = "ready"
  /\ spVideoFramerate = Manual
  /\ ~spIsWorkerBusy
  /\ SpRender("click", spStatus, spVideoFramerate, spIsAnalysisRunning, videoPrompt,
              spTriggerInference(SpRefs, videoPrompt, videoPrompt,
                                 spVideoFramerate, "click", spCaptureFrame))
  /\ UNCHANGED spVideoReady
  /\ UNCHANGED <<mpVars, cvVars>>

\* the action button while videoFramerate !== 0: onClick = toggleAnalysis
spToggleAnalysis ==
  /\ spStatus = "ready"
  /\ spVideoFramerate # Manual
  /\ SpRender("toggle", spStatus, spVideoFramerate, ~spIsAnalysisRunning,
              videoPrompt, SpRefs)
  /\ UNCHANGED spVideoReady
  /\ UNCHANGED <<mpVars, cvVars>>

\* an interval created by setInterval(triggerInference, intervalMs) fires
SpTick ==
  /\ \E t \in spTimers :
       SpRender("tick", spStatus, spVideoFramerate, spIsAnalysisRunning, videoPrompt,
                spTriggerInference(SpRefs, t.prompt, videoPrompt,
                                   spVideoFramerate, "tick", spCaptureFrame))
  /\ UNCHANGED spVideoReady
  /\ UNCHANGED <<mpVars, cvVars>>

\* the framerate <select>
SpSetFramerate(f) ==
  /\ spStatus = "ready"
  /\ SpRender("rate", spStatus, f, spIsAnalysisRunning, videoPrompt, SpRefs)
  /\ UNCHANGED spVideoReady
  /\ UNCHANGED <<mpVars, cvVars>>

\* the prompt field: onChange = setVideoPrompt(e.target.value)
setVideoPrompt(t) ==
  /\ spStatus = "ready"
  /\ SpRender("edit", spStatus, spVideoFramerate, spIsAnalysisRunning, t, SpRefs)
  /\ UNCHANGED spVideoReady
  /\ UNCHANGED <<mpVars, cvVars>>

\* case "start": setModelOutput("")
SpHandleStart(k) ==
  /\ k \in 1..Len(spInflight)
  /\ spInflight[k].phase = "posted"
  /\ spInflight' = [spInflight EXCEPT ![k].phase = "started"]
  /\ spLastOp' = "start"
  /\ UNCHANGED <<spStatus, spVideoFramerate, videoPrompt, spIsAnalysisRunning,
                 spIsWorkerBusy, spInferenceInterval, spTimers, spListener,
                 spVideoReady>>
  /\ UNCHANGED <<mpVars, cvVars>>

SpHandleComplete_ignoresRate(k) ==
  /\ k \in 1..Len(spInflight)
  /\ spInflight[k].phase = "started"
  /\ LET r == [SpRefs EXCEPT !.busy = FALSE, !.wk = Remove(spInflight, k)]
     IN SpRender("complete", spStatus, spVideoFramerate, spIsAnalysisRunning,
                 videoPrompt,
                 IF spListener.run
                 THEN spTriggerInference(r, spListener.prompt, videoPrompt,
                                         spVideoFramerate, "complete", spCaptureFrame)
                 ELSE r)
  /\ UNCHANGED spVideoReady
  /\ UNCHANGED <<mpVars, cvVars>>

\* case "complete": isWorkerBusy.current = false; the listener re-fires
\* its own triggerInference when the rate and run flag it closed over say
\* continuous loop
SpHandleComplete(k) ==
  /\ k \in 1..Len(spInflight)
  /\ spInflight[k].phase = "started"
  /\ LET r == [SpRefs EXCEPT !.busy = FALSE, !.wk = Remove(spInflight, k)]
     IN SpRender("complete", spStatus, spVideoFramerate, spIsAnalysisRunning,
                 videoPrompt,
                 IF spListener.fr = MaxSpeed /\ spListener.run
                 THEN spTriggerInference(r, spListener.prompt, videoPrompt,
                                         spVideoFramerate, "complete", spCaptureFrame)
                 ELSE r)
  /\ UNCHANGED spVideoReady
  /\ UNCHANGED <<mpVars, cvVars>>

\* case "error": setError(data); isWorkerBusy.current = false;
\* setIsAnalysisRunning(false)
SpHandleGenError(k) ==
  /\ k \in 1..Len(spInflight)
  /\ SpRender("error", spStatus, spVideoFramerate, FALSE, videoPrompt,
              [SpRefs EXCEPT !.busy = FALSE, !.wk = Remove(spInflight, k)])
  /\ UNCHANGED spVideoReady
  /\ UNCHANGED <<mpVars, cvVars>>

NextSingle ==
  \/ SpLoadModel
  \/ SpHandleReady
  \/ SpMediaReady
  \/ SpManualTrigger
  \/ spToggleAnalysis
  \/ SpTick
  \/ \E f \in Rates \cup {Slow} : SpSetFramerate(f)
  \/ \E t \in SpPrompts : setVideoPrompt(t)
  \/ \E k \in 1..Len(spInflight) : SpHandleStart(k)
  \/ \E k \in 1..Len(spInflight) : SpHandleComplete(k)
  \/ \E k \in 1..Len(spInflight) : SpHandleGenError(k)

SpecSingle == Init /\ [][NextSingle]_vars

\* =================================================================== claims
HasEligible == \E i \in 1..Len(prompts) : Eligible(prompts[i])

\* C1: at most one `generate` has been posted without its `complete` or
\* `error` having been received.
C1_OneGenerateInFlight == Len(inflight) <= 1

\* C2: in continuous mode with the loop running, a frame and an eligible
\* prompt, the `complete` that ends a drain dispatches the next capture, so
\* the worker is busy again right after it.
C2_ContinuousRefires ==
  (/\ lastOp.op = "complete"
   /\ pendingRequests = <<>>
   /\ videoFramerate = MaxSpeed
   /\ isAnalysisRunning
   /\ captureFrame # NoImage
   /\ HasEligible)
  => isWorkerBusy /\ inflight # <<>>

\* a text with a character that is not white space
HasInk(t) == \E k \in 1..Len(t) : t[k] # " "
\* the prompts that are enabled and have such a text, in prompt order
Wanted(ps) == SelectSeq(ps, LAMBDA p : p.enabled /\ HasInk(p.text))

\* C3: a capture trigger that finds the worker idle and a frame builds one
\* request per enabled prompt with non-blank text, in prompt order, with that
\* prompt's id and text (and does nothing when there is none); no request of
\* a disabled prompt or with a blank text is ever queued or posted.
C3_RequestsAreEligiblePrompts ==
  [][/\ (lastOp'.op = "click" /\ ~isWorkerBusy /\ captureFrame # NoImage)
          => LET want == Wanted(prompts)
             IN IF want = <<>>
                THEN UNCHANGED <<pendingRequests, inflight, postedIds, captureIds>>
                ELSE /\ captureIds' = [k \in 1..Len(want) |-> want[k].id]
                     /\ postedIds' = <<want[1].id>>
                     /\ inflight' = <<[id |-> want[1].id, phase |-> "posted"]>>
                     /\ pendingRequests' =
                          [k \in 1..(Len(want) - 1) |->
                             [id |-> want[k + 1].id, text |-> want[k + 1].text,
                              image |-> Frame]]
     /\ \A k \in 1..Len(pendingRequests') :
          /\ HasInk(pendingRequests'[k].text)
          /\ prompts[pendingRequests'[k].id + 1].enabled
     /\ \A k \in 1..Len(inflight') : prompts[inflight'[k].id + 1].enabled
    ]_vars

C3_Witness ==
  /\ lastOp.op = "click"
  /\ prompts[1].enabled /\ prompts[1].text = <<" ">>
  /\ prompts[2].enabled /\ prompts[2].text = <<"a">>
  /\ captureIds = <<1>>
  /\ postedIds = <<1>>
  /\ inflight = <<[id |-> 1, phase |-> "posted"]>>

\* C4: during a drain with no stop and no error, the ids posted so far
\* followed by the ids still queued are the ids of the capture, in order; a
\* request is posted only when the previous one has been answered; and when
\* the drain has ended every id of the capture has been posted exactly once.
C4_DrainInOrder ==
  drainClean =>
    /\ postedIds \o IdsOf(pendingRequests) = captureIds
    /\ Len(inflight) <= 1
    /\ inflight # <<>> => /\ postedIds # <<>>
                          /\ inflight[1].id = postedIds[Len(postedIds)]
    /\ ~isWorkerBusy => postedIds = captureIds

C4_Witness ==
  /\ drainClean
  /\ Len(captureIds) = 2
  /\ postedIds = captureIds
  /\ ~isWorkerBusy
  /\ lastOp.op = "complete"

\* C5: a click or an interval tick that finds isWorkerBusy true posts nothing
\* and leaves the queue, the request in flight and the outputs as they were.
C5_BusyTriggerIgnored ==
  [][(lastOp'.op \in {"click", "tick"} /\ isWorkerBusy)
       => UNCHANGED <<pendingRequests, inflight, isWorkerBusy, outputs,
                      captureIds, postedIds>>]_vars

C5_Witness ==
  /\ lastOp.op \in {"click", "tick"}
  /\ isWorkerBusy
  /\ pendingRequests # <<>>
  /\ inflight # <<>>

\* C6: the requests of a new capture are put in pendingRequests only when
\* the queue is empty and no request is in flight.
C6_NoOverwrite ==
  [][(captureIds' # captureIds \/ (drainClean' /\ ~drainClean)
        \/ Len(inflight') > Len(inflight))
       => pendingRequests = <<>> /\ inflight = <<>>]_vars

\* C7: an `update` with id i and text t appends t to buffer i and leaves the
\* other buffers alone.
C7_UpdateAppends ==
  [][lastOp'.op = "update"
       => outputs' = [outputs EXCEPT ![lastOp'.id] = outputs[lastOp'.id] \o lastOp'.out]]_vars

C7_Witness ==
  /\ lastOp.op = "update"
  /\ lastOp.id = 1
  /\ outputs[1] = <<"x", "y">>
  /\ outputs[0] # <<>>

\* C8: at most one acquired camera stream is live, and none while the source
\* is the file.
C8_OneLiveStream ==
  /\ Cardinality(live) <= 1
  /\ inputSource = "file" => live = {}

\* C9: right after an `error` status message the error is stored, the worker
\* is not busy, the loop is off, no interval is live and the queue is empty.
C9_ErrorResets ==
  lastOp.op = "error" =>
    /\ error = "worker"
    /\ ~isWorkerBusy
    /\ ~isAnalysisRunning
    /\ timers = {}
    /\ pendingRequests = <<>>

C9_Witness ==
  /\ lastOp.op = "error"
  /\ Len(captureIds) = 2
  /\ Len(postedIds) = 1
  /\ videoFramerate = Periodic

\* C11: Stop on a running loop posts `interrupt`, empties pendingRequests,
\* cancels the timer and leaves the request in flight alone; afterwards
\* nothing is posted until a new capture is accepted, and the `complete` of
\* the request that was in flight only clears the busy flag.
C11_StopClearsQueue ==
  [][/\ lastOp'.op = "stop"
          => /\ lastOp'.sent = "interrupt"
             /\ pendingRequests' = <<>>
             /\ timers' = {}
             /\ ~isAnalysisRunning'
             /\ UNCHANGED <<inflight, isWorkerBusy, postedIds>>
     /\ (~drainClean /\ ~drainClean') => postedIds' = postedIds
     /\ (~drainClean /\ lastOp'.op = "complete")
          => /\ ~isWorkerBusy'
             /\ pendingRequests' = <<>>
             /\ Len(inflight') < Len(inflight)
    ]_vars

C11_Witness ==
  /\ lastOp.op = "complete"
  /\ ~drainClean
  /\ error = "none"
  /\ Len(captureIds) = 2
  /\ Len(postedIds) = 1
  /\ ~isWorkerBusy
  /\ inflight = <<>>

\* The render: the only place that shows {error} is the panel of
\* status === null.
ErrorBanner == status = "null" /\ error # "none"

\* C12: whenever an error has been recorded, its text is rendered in the
\* panel that is shown.
C12_ErrorIsShown == error # "none" => ErrorBanner

\* The source is the camera, the getUserMedia call of the current camera
\* effect has failed and no stream is held.
CameraFailed ==
  /\ inputSource = "camera"
  /\ calls # <<>>
  /\ calls[Len(calls)].phase = "failed"
  /\ streamRef = 0
  /\ live = {}

\* C13: while the camera has failed, captureFrame yields no frame and no
\* step posts a `generate`.
C13_NoDispatchWithoutCamera ==
  [][CameraFailed => /\ captureFrame = NoImage
                     /\ Len(inflight') <= Len(inflight)
                     /\ postedIds' = postedIds]_vars

\* position of a status on the path null -> loading -> ready
StatusRank(st) == IF st = "null" THEN 0 ELSE IF st = "loading" THEN 1 ELSE 2

\* C14: status never goes back on null -> loading -> ready.
C14_StatusMonotonic == [][StatusRank(status') >= StatusRank(status)]_vars

\* C15: a capture trigger (click, interval tick, or the start of the loop)
\* that finds no frame or no eligible prompt posts nothing and leaves the
\* busy flag, the queue, the outputs and the error as they were.
C15_EmptyTriggerIsNoOp ==
  [][(/\ lastOp'.op \in {"click", "tick", "startLoop"}
      /\ \/ ~(status = "ready" /\ videoEl.ready)
         \/ Wanted(prompts) = <<>>)
       => UNCHANGED <<isWorkerBusy, pendingRequests, inflight, outputs, error,
                      captureIds, postedIds>>]_vars

C15_Witness ==
  /\ lastOp.op = "click"
  /\ status = "ready"
  /\ videoEl.ready
  /\ Wanted(prompts) = <<>>
  /\ ~isWorkerBusy
  /\ inflight = <<>>
  /\ error = "none"

\* C16: `start` and `update` touch only the buffer of the id they carry, and
\* a `complete` whose id is not that of the request posted last changes
\* neither the busy flag nor the queue and posts nothing.
C16_EventsMatchedById ==
  [][/\ lastOp'.op \in {"start", "update"}
          => /\ \A j \in PromptIds \ {lastOp'.id} : outputs'[j] = outputs[j]
             /\ UNCHANGED <<isWorkerBusy, pendingRequests, postedIds>>
     /\ (/\ lastOp'.op = "complete"
         /\ \/ postedIds = <<>>
            \/ lastOp'.id # postedIds[Len(postedIds)])
          => UNCHANGED <<isWorkerBusy, pendingRequests, postedIds>>
    ]_vars

\* C17: Stop with nothing in flight leaves the busy flag false, the queue
\* empty and prompts, outputs and worker untouched; and the next start of a
\* continuous loop from there, with a frame and an eligible prompt,
\* dispatches a request (a periodic one arms its timer).
C17_IdleStopIsNoOp ==
  [][/\ (lastOp'.op = "stop" /\ inflight = <<>> /\ ~isWorkerBusy)
          => /\ ~isWorkerBusy'
             /\ pendingRequests' = <<>>
             /\ UNCHANGED <<prompts, outputs, inflight, postedIds, error>>
     /\ (/\ lastOp.op = "stop" /\ inflight = <<>>
         /\ lastOp'.op = "startLoop")
          => IF videoFramerate = MaxSpeed
             THEN (status = "ready" /\ videoEl.ready /\ Wanted(prompts) # <<>>)
                    => /\ isWorkerBusy'
                       /\ inflight' = <<[id |-> Wanted(prompts)[1].id, phase |-> "posted"]>>
             ELSE timers' = IF videoFramerate > 0
                            THEN {[fr |-> videoFramerate, run |-> TRUE, prompts |-> prompts]}
                            ELSE {}
    ]_vars

C17_Witness ==
  /\ lastOp.op = "stop"
  /\ inflight = <<>>
  /\ ~isWorkerBusy
  /\ pendingRequests = <<>>
  /\ postedIds # <<>>
  /\ videoFramerate = MaxSpeed
  /\ videoEl.ready
  /\ Wanted(prompts) # <<>>

\* C18: the chat + live video page has at most one `generate` posted and not
\* yet answered.
C18_OneGenerateOutstanding == Len(cvInflight) <= 1

\* C19: between events isWorkerBusy is true exactly when a request is at the
\* worker, and a non-empty queue implies isWorkerBusy.
C19_BusyAgreesWithQueue ==
  /\ isWorkerBusy <=> inflight # <<>>
  /\ pendingRequests # <<>> => isWorkerBusy

\* s is a prefix of t
IsPrefix(s, t) == Len(s) <= Len(t) /\ SubSeq(t, 1, Len(s)) = s

\* C20: every step other than Clear keeps the previous content of every
\* buffer as a prefix of its new content; Clear empties one buffer and
\* leaves the others unchanged.
C20_AppendOnly ==
  [][IF lastOp'.op = "clear"
     THEN \E i \in PromptIds : outputs' = [outputs EXCEPT ![i] = <<>>]
     ELSE \A i \in PromptIds : IsPrefix(outputs[i], outputs'[i])]_vars

C20_Witness ==
  /\ lastOp.op = "start"
  /\ lastOp.id = 0
  /\ outputs[0] = <<"x">> \o Sep
  /\ outputs[1] # <<>>

\* C21, as stated: every `start` for id i appends the separator to buffer i.
C21_SeparatorOnEveryStart ==
  [][lastOp'.op = "start"
       => outputs'[lastOp'.id] = outputs[lastOp'.id] \o Sep]_vars

\* C21, amended: a `start` for id i appends the separator to a non-empty
\* buffer i and leaves an empty buffer empty, so that right after it the
\* buffer is empty or ends with the separator; the other buffers are left
\* alone.
C21_SeparatorBetweenPasses ==
  [][lastOp'.op = "start"
       => LET i == lastOp'.id
          IN /\ outputs'[i] = IF outputs[i] = <<>> THEN <<>> ELSE outputs[i] \o Sep
             /\ \/ outputs'[i] = <<>>
                \/ SubSeq(outputs'[i], Len(outputs'[i]) - Len(Sep) + 1, Len(outputs'[i])) = Sep
             /\ \A j \in PromptIds \ {i} : outputs'[j] = outputs[j]]_vars

C21_Witness ==
  /\ lastOp.op = "start"
  /\ lastOp.id = 1
  /\ outputs[1] = <<"y">> \o Sep

\* C22: at most one interval timer is live; one is live only while the loop
\* runs with status ready and a rate > 0; it is the timer the ref designates
\* and it was created for the current rate, run and prompt set, so that no
\* timer of an earlier rate, run or prompt set is left to fire.
C22_OneCurrentTimer ==
  /\ Cardinality(timers) <= 1
  /\ \A t \in timers :
       /\ isAnalysisRunning
       /\ status = "ready"
       /\ videoFramerate > 0
       /\ t = [fr |-> videoFramerate, run |-> TRUE, prompts |-> prompts]
       /\ inferenceInterval = t

C22_Witness ==
  /\ lastOp.op = "rate"
  /\ videoFramerate = Slow
  /\ isWorkerBusy
  /\ timers = {[fr |-> Slow, run |-> TRUE, prompts |-> prompts]}

\* C23: in the single-prompt video app a capture made while videoFramerate
\* is 0 was made by a click on the action button, never by an interval tick,
\* the loop effect or `complete`; while the rate is 0 no interval is live and
\* the registered listener is the one of rate 0, also when the rate became 0
\* with the loop running or a request in flight.
C23_ManualIsUserInitiated ==
  /\ \A k \in 1..Len(spInflight) :
       spInflight[k].rate = Manual => spInflight[k].by = "click"
  /\ spVideoFramerate = Manual => (spTimers = {} /\ spListener.fr = Manual)

C23_Witness ==
  /\ spLastOp = "complete"
  /\ spVideoFramerate = Manual
  /\ spIsAnalysisRunning
  /\ spVideoReady
  /\ spInflight = <<>>

\* C29: in the single-prompt video app every posted `generate` carries the
\* prompt text that was in the prompt field at the moment of the capture,
\* whoever made the capture (click, interval, loop start, `complete`).
C29_PromptIsCurrent ==
  \A k \in 1..Len(spInflight) : spInflight[k].text = spInflight[k].entered

\* C24: the prompt set keeps its ids, their order and the enabled flags in
\* every step; ids are unique; an edit of a prompt changes the text of one
\* prompt and nothing else of the prompt set, and leaves every output buffer
\* as it was.
C24_PromptSetIsFixed ==
  [][/\ Len(prompts') = Len(prompts)
     /\ \A k \in 1..Len(prompts) :
          /\ prompts'[k].id = prompts[k].id
          /\ prompts'[k].enabled = prompts[k].enabled
     /\ \A j, k \in 1..Len(prompts') : prompts'[j].id = prompts'[k].id => j = k
     /\ lastOp'.op = "edit"
          => /\ \E k \in 1..Len(prompts) :
                  /\ prompts'[k].text # prompts[k].text
                  /\ \A j \in 1..Len(prompts) \ {k} : prompts'[j] = prompts[j]
             /\ outputs' = outputs
     /\ lastOp'.op # "edit" => prompts' = prompts]_vars

C24_Witness ==
  /\ lastOp.op = "edit"
  /\ prompts[2].text = <<"a">>
  /\ prompts[1].text = <<"a">>
  /\ outputs[0] # <<>>

\* C25: once the loop has gone from running to not running while a capture
\* was draining (Stop, source change, upload, worker error), nothing is
\* posted until a new capture is accepted: the requests that were queued at
\* that moment are never sent.
C25_StoppedLoopPostsNothing ==
  [][/\ (isAnalysisRunning /\ ~isAnalysisRunning') => ~drainClean'
     /\ (~drainClean /\ ~drainClean') => postedIds' = postedIds]_vars

\* C26: right after an `error` event of the Worker object the page is as
\* after an `error` status message: the queue is empty, the loop is off, no
\* interval is live, and a request still in flight is not taken for idle.
C26_WorkerErrorResets ==
  lastOp.op = "workerError" =>
    /\ pendingRequests = <<>>
    /\ ~isAnalysisRunning
    /\ timers = {}
    /\ inflight # <<>> => isWorkerBusy

\* C27: with a worker that answers every `generate`, the drain of a capture
\* terminates: never more requests are posted than the capture built, a
\* non-empty queue becomes empty and a set busy flag becomes false.
C27_DrainTerminates ==
  /\ [](Len(postedIds) <= Len(captureIds))
  /\ (pendingRequests # <<>>) ~> (pendingRequests = <<>>)
  /\ isWorkerBusy ~> ~isWorkerBusy

C27_Witness ==
  /\ lastOp.op = "complete"
  /\ Len(captureIds) = 2
  /\ Len(postedIds) = 2
  /\ pendingRequests = <<>>
  /\ ~isWorkerBusy
  /\ drainClean

\* C28: a step that accepts a capture builds its requests from the prompt
\* texts entered at that moment and from one picture of the video, posts the
\* first and queues the others; every other step leaves the queued requests
\* as they are, drops them all, or posts the head of the queue as it was
\* queued, whatever was edited or played in between.
C28_CaptureIsSnapshot ==
  [][LET built == BuildRequests(prompts', videoEl'.frame)
     IN IF Len(inflight') > Len(inflight)
        THEN /\ built # <<>>
             /\ posted' = <<built[1]>>
             /\ pendingRequests' = Tail(built)
        ELSE \/ /\ posted' = posted
                /\ pendingRequests' \in {pendingRequests, <<>>}
             \/ /\ pendingRequests # <<>>
                /\ posted' = Append(posted, Head(pendingRequests))
                /\ pendingRequests' = Tail(pendingRequests)]_vars

C28_Witness ==
  /\ lastOp.op = "complete"
  /\ Len(posted) = 2
  /\ posted[2].text # prompts[2].text
  /\ posted[2].image # videoEl.frame
  /\ posted[2].image = posted[1].image

\* C30: in the chat + video app the `start` of a generation changes only the
\* view that issued it (chat transcript for a chat generation, video output
\* for a video capture), and text is appended to the video output only
\* while a video generation is streaming, to the transcript's last message
\* only while a chat generation is streaming.
C30_OutputReachesItsView ==
  [][/\ \A k \in 1..Len(cvInflight) :
          (/\ Len(cvInflight') = Len(cvInflight)
           /\ cvInflight[k].phase = "posted"
           /\ cvInflight'[k].phase = "started")
            => IF cvInflight[k].src = "chat"
               THEN videoOutput' = videoOutput
               ELSE messages' = messages
     /\ Len(videoOutput') > Len(videoOutput)
          => \E k \in 1..Len(cvInflight) :
               cvInflight[k].src = "video" /\ cvInflight[k].phase = "started"
     /\ (Len(messages') = Len(messages) /\ messages' # messages)
          => \E k \in 1..Len(cvInflight) :
               cvInflight[k].src = "chat" /\ cvInflight[k].phase = "started"]_vars

\* C10: after the `error` of a failed generation no `generate` is posted
\* until the user clicks Analyze / Start or submits a chat message.
C10_NoAutomaticRetry == cvSinceError => cvLastOp.posts = 0

====
